---------------------------- MODULE Spec2Model ----------------------------
(***************************************************************************)
(* Model of the grading session of corretoraipro:                          *)
(*   - Dashboard.tsx    : handleAnalyze / handleReset / handleFileChange   *)
(*   - authService.ts   : consumeCredit / reloadUser (getCurrentUser)      *)
(*   - ResultsView.tsx  : the editable result, the debounced summary       *)
(*                        effect and the per-card re-evaluation            *)
(*   - geminiService.ts : analyzeExam / reevaluateQuestion /               *)
(*                        regenerateSummary, as seen by their callers      *)
(*                                                                         *)
(* Numbers (scores) are kept in thousandths, so 8.5 is 8500 and            *)
(* Math.round(x * 100) / 100 rounds to a multiple of 10.                   *)
(* Time is kept in milliseconds and advances in steps of TickMs.           *)
(***************************************************************************)
EXTENDS Integers, Sequences, FiniteSets, TLC

(* ------------------------------ bounds -------------------------------- *)
MaxSubmits == 2
MaxEdits == 2
MaxReevals == 2
MaxCredits == 1
MaxPeers == 1
MaxAdjusts == 1

(* ------------------------- program constants -------------------------- *)
DebounceMs == 2000
InfiniteCredits == 99999
TickMs == DebounceMs \div 2

VARIABLES
  (* quota store: the row of table 'profiles' of the logged-in principal *)
  profile,
  (* the consumeCredit calls of the principal's other sessions *)
  peers,
  (* the updateUserCredits call of the admin panel on the principal's row *)
  adjust,
  (* Dashboard *)
  user, file, loading, result, error,
  pc, correction, readCredits,
  (* ResultsView (mounted while result is not null) *)
  data, isUpdatingSummary, firstRender, timer, isReevaluating, epoch,
  (* calls to the grading oracle that have not returned yet *)
  summaryCalls, reevalCalls,
  (* observation of the run (discarded: a reset or a file selection came *)
  (* while the grading call of the current submit was in flight)         *)
  lastOp, sinceEdit, callsSinceEdit, burst, qualifying, commitCalls,
  gradeOutcome, ledger, discarded,
  nextReq, submits, edits, reevals

vars == <<profile, peers, adjust, ledger, discarded, user, file, loading,
          result, error, pc, correction, readCredits, data,
          isUpdatingSummary, firstRender, timer, isReevaluating, epoch,
          summaryCalls, reevalCalls, lastOp, sinceEdit, callsSinceEdit,
          burst, qualifying, commitCalls, gradeOutcome, nextReq, submits,
          edits, reevals>>

dashVars == <<user, file, loading, result, error, pc, correction, readCredits>>
viewVars == <<data, isUpdatingSummary, firstRender, timer, isReevaluating, epoch>>
obsVars  == <<sinceEdit, callsSinceEdit, burst, qualifying, commitCalls,
             gradeOutcome>>

(* ------------------------------ values -------------------------------- *)
Null == [null |-> TRUE]
NoError == "none"
NoTimer == [armed |-> FALSE]

HasField(q, f) == f \in DOMAIN q

(* { ...q, [f]: v } *)
Spread(q, f, v) == [g \in (DOMAIN q) \cup {f} |-> IF g = f THEN v ELSE q[g]]

(* { ...q, ...u } *)
SpreadAll(q, u) ==
  [g \in (DOMAIN q) \cup (DOMAIN u) |-> IF g \in DOMAIN u THEN u[g] ELSE q[g]]

(* Math.round(x * 100) / 100 on thousandths; Math.round rounds halves up *)
Round2(x) == ((x + 5) \div 10) * 10

(* parseFloat(value) || 0 for the strings the number inputs can deliver *)
ParseFloatOr0(value) ==
  CASE value = "8.5"   -> 8500
    [] value = "1.005" -> 1005
    [] value = "5"     -> 5000
    [] OTHER           -> 0

IsContext(q) == HasField(q, "type") /\ q.type = "context"

(* q.score || 0 and q.maxScore || 0 *)
ScoreOr0(q) == IF HasField(q, "score") THEN q.score ELSE 0
MaxScoreOr0(q) == IF HasField(q, "maxScore") THEN q.maxScore ELSE 0

(* --------------------- results the oracle can return ------------------ *)
Question(n, s, m) ==
  [type |-> "question", questionNumber |-> n, questionText |-> "text",
   studentAnswer |-> "answer", isCorrect |-> FALSE, score |-> s,
   maxScore |-> m, feedback |-> "feedback"]

(* a question the oracle returned without the optional maxScore *)
QuestionNoMax(n, s) ==
  [type |-> "question", questionNumber |-> n, questionText |-> "text",
   studentAnswer |-> "answer", isCorrect |-> FALSE, score |-> s,
   feedback |-> "feedback"]

Context(n) ==
  [type |-> "context", questionNumber |-> n, questionText |-> "text"]

Correction(qs, total, maxTotal) ==
  [studentName |-> "name", schoolName |-> "school", totalScore |-> total,
   maxTotalScore |-> maxTotal, summary |-> "graded",
   fullTranscription |-> "transcript", questions |-> qs]

(* JSON.parse of the oracle's answer: the totals are the oracle's own *)
GradeResults ==
  { Correction(<<Question("1", 7000, 10000),
                 Spread(Question("2", 3000, 10000), "alternatives", <<"a", "b">>)>>,
               10000, 20000),
    Correction(<<Context("Texto 1"), Question("1", 1004, 2000),
                 QuestionNoMax("2", 2000)>>,
               3000, 10000) }

(* JSON.parse of the oracle's answer to reevaluateQuestion *)
ReevalResults ==
  { [isCorrect |-> TRUE, score |-> 9000, feedback |-> "reevaluated"] }

(* the text of the summary the oracle writes for request id *)
SummaryText(id) == "summary-" \o ToString(id)

(* ------------------------- authService.ts ----------------------------- *)
OfflineAdmin ==
  [id |-> "offline-super-admin", role |-> "admin", credits |-> InfiniteCredits]

(* mapProfileToUser for an account that is not the super admin *)
mapProfileToUser(p) == [id |-> "u1", role |-> p.role, credits |-> p.credits]

(* getCurrentUser: the stored profile, or the offline bypass when the     *)
(* session or the profile cannot be fetched                               *)
getCurrentUser(p, reachable) ==
  IF reachable THEN mapProfileToUser(p) ELSE OfflineAdmin

(* ------------------------- Dashboard.tsx ------------------------------ *)
DeniedBroken(u) == u.role # "admin" /\ u.credits < 0
(* the guard of handleAnalyze that refuses the submit *)
Denied(u) == u.role # "admin" /\ u.credits <= 0

(* the condition under which handleAnalyze installs the result *)
ShowsResult(creditConsumed, u) == creditConsumed \/ u.role = "admin"

(* ------------------------- ResultsView.tsx ---------------------------- *)
EffectTimerBroken(fr, prev, d) ==
  IF fr THEN NoTimer
  ELSE IF prev.armed THEN prev
  ELSE [armed |-> TRUE, left |-> DebounceMs, data |-> d]
(* the summary effect, run when data.questions or data.totalScore changed:*)
(* the cleanup of the previous run clears its timeout (prev), the first   *)
(* run only lowers firstRender, later runs arm a timeout closing over the *)
(* data of this render                                                    *)
EffectTimer(fr, prev, d) ==
  IF fr THEN NoTimer
  ELSE [armed |-> TRUE, left |-> DebounceMs, data |-> d]

RECURSIVE SumScore(_), SumMaxScore(_), SumScoreAll(_)
(* reduce over the questions, skipping type 'context' *)
SumScore(qs) ==
  IF qs = <<>> THEN 0
  ELSE (IF IsContext(Head(qs)) THEN 0 ELSE ScoreOr0(Head(qs))) + SumScore(Tail(qs))
SumMaxScore(qs) ==
  IF qs = <<>> THEN 0
  ELSE (IF IsContext(Head(qs)) THEN 0 ELSE MaxScoreOr0(Head(qs)))
       + SumMaxScore(Tail(qs))
(* reduce over the questions of handleQuestionBulkUpdate: every item *)
SumScoreAll(qs) ==
  IF qs = <<>> THEN 0 ELSE ScoreOr0(Head(qs)) + SumScoreAll(Tail(qs))

(* updatedQuestions[index] of a copy of qs: the item, or undefined (which *)
(* spreads to the empty object) at index = qs.length                      *)
ItemAt(qs, index) == IF index \in 1..Len(qs) THEN qs[index] ELSE <<>>

(* updatedQuestions[index] = q on a copy of qs: an assignment at          *)
(* index = qs.length appends                                              *)
AssignAt(qs, index, q) ==
  IF index \in 1..Len(qs) THEN [qs EXCEPT ![index] = q] ELSE Append(qs, q)

handleHeaderChangeBroken(d, field, value) ==
  [Spread(d, field, value) EXCEPT !.totalScore = 0]
handleHeaderChange(d, field, value) == Spread(d, field, value)

(* handleQuestionChange called in a render whose state is d *)
handleQuestionChange(d, index, field, value) ==
  LET spread  == AssignAt(d.questions, index,
                          Spread(ItemAt(d.questions, index), field, value))
      scored  == ~IsContext(spread[index])
      updatedQuestions ==
        IF scored /\ field = "score"
          THEN [spread EXCEPT ![index] = Spread(@, "score", ParseFloatOr0(value))]
        ELSE IF scored /\ field = "maxScore"
          THEN [spread EXCEPT ![index] = Spread(@, "maxScore", ParseFloatOr0(value))]
        ELSE spread
      newTotalScore ==
        IF scored /\ field = "score"
          THEN Round2(SumScore(updatedQuestions)) ELSE d.totalScore
      newMaxTotalScore ==
        IF scored /\ field = "maxScore"
          THEN Round2(SumMaxScore(updatedQuestions)) ELSE d.maxTotalScore
  IN [d EXCEPT !.questions = updatedQuestions,
               !.totalScore = IF field = "score" THEN newTotalScore ELSE @,
               !.maxTotalScore = IF field = "maxScore" THEN newMaxTotalScore ELSE @]

(* handleQuestionBulkUpdate as the closure of the render whose state was  *)
(* closed (it reads data.questions and data.totalScore there), applied    *)
(* through setData(prev => ...) to the state prev                         *)
handleQuestionBulkUpdate(closed, prev, index, updates) ==
  LET updatedQuestions ==
        AssignAt(closed.questions, index,
                 SpreadAll(ItemAt(closed.questions, index), updates))
      newTotalScore ==
        IF HasField(updates, "score")
          THEN Round2(SumScoreAll(updatedQuestions)) ELSE closed.totalScore
  IN [prev EXCEPT !.questions = updatedQuestions,
                  !.totalScore = IF HasField(updates, "score")
                                   THEN newTotalScore ELSE @]

(* handleAlternativeChange called in a render whose state is d *)
handleAlternativeChange(d, qIndex, altIndex, value) ==
  IF HasField(d.questions[qIndex], "alternatives")
    THEN [d EXCEPT !.questions[qIndex].alternatives[altIndex] = value]
    ELSE d

(* the isReevaluating state of the cards rendered for the items qs: a new *)
(* card starts with false                                                 *)
Cards(flags, qs) ==
  [i \in 1..Len(qs) |-> IF i \in 1..Len(flags) THEN flags[i] ELSE FALSE]

ButtonDisabledBroken(flags, i) == FALSE
(* disabled={isReevaluating} of the re-evaluation button of card i *)
ButtonDisabled(flags, i) == flags[i]

(* the fields and values the cards of ResultsView pass to onUpdate *)
CardEdits(q) ==
  IF IsContext(q)
    THEN {<<"questionText", "edited">>}
    ELSE {<<"score", "8.5">>, <<"score", "1.005">>, <<"score", "">>,
          <<"maxScore", "5">>, <<"isCorrect", TRUE>>,
          <<"questionText", "edited">>}

HeaderEdits == {<<"studentName", "edited">>, <<"summary", "edited">>}

(* the fields and values a caller of handleQuestionChange can pass *)
HandlerEdits ==
  {<<"score", "8.5">>, <<"maxScore", "5">>, <<"questionText", "edited">>,
   <<"questionNumber", "edited">>, <<"studentAnswer", "edited">>,
   <<"feedback", "edited">>}

ReevalArgumentBroken(d, i) == result.questions[i]
(* the question prop of card i in the render of state d, which           *)
(* handleReevaluate passes to reevaluateQuestion                          *)
ReevalArgument(d, i) == d.questions[i]

MountedBroken(call) == result # Null
(* setState of the component that issued call takes effect only while     *)
(* that component is mounted: every setResult(correction) mounts a new    *)
(* ResultsView with state of its own                                      *)
Mounted(call) == result # Null /\ call.epoch = epoch

ApplySummaryBroken(d, text) == Spread(d, "summary", text)
(* if (newSummary) setData(prev => ({ ...prev, summary: newSummary })) *)
ApplySummary(d, text) == IF text # "" THEN Spread(d, "summary", text) ELSE d

ClearFlagBroken(flags, i) == flags
(* finally { setIsReevaluating(false) } of card i *)
ClearFlag(flags, i) == [flags EXCEPT ![i] = FALSE]

(* observation: forget what in-flight re-evaluations saw of item i *)
Forget(calls, i) ==
  { [c EXCEPT !.done = {e \in @ : e[1] # i}] : c \in calls }

(* onChange of a header input or of the summary textarea *)
EditHeader(field, value) ==
  /\ result # Null
  /\ edits < MaxEdits
  /\ edits' = edits + 1
  /\ data' = handleHeaderChange(data, field, value)
  /\ lastOp' = [op |-> "editHeader", field |-> field]
  /\ UNCHANGED <<adjust, discarded, peers, ledger, profile, dashVars,
                 isUpdatingSummary, firstRender, timer, isReevaluating,
                 epoch, summaryCalls, reevalCalls, obsVars, nextReq,
                 submits, reevals>>

(* onUpdate of card i: handleQuestionChange, then the render and the      *)
(* summary effect, whose dependency data.questions is a new array         *)
EditQuestion(i, field, value) ==
  /\ result # Null
  /\ edits < MaxEdits
  /\ edits' = edits + 1
  /\ data' = handleQuestionChange(data, i, field, value)
  /\ timer' = EffectTimer(firstRender, timer, data')
  /\ firstRender' = FALSE
  /\ isReevaluating' = Cards(isReevaluating, data'.questions)
  /\ sinceEdit' = 0
  /\ callsSinceEdit' = 0
  /\ burst' = IF timer.armed THEN burst + 1 ELSE 1
  /\ qualifying' = (qualifying /\ field \in {"score", "isCorrect"})
  /\ reevalCalls' = Forget(reevalCalls, i)
  /\ lastOp' = [op |-> "editQuestion", idx |-> i, field |-> field]
  /\ UNCHANGED <<adjust, discarded, peers, ledger, profile, dashVars,
                 isUpdatingSummary, epoch, summaryCalls, commitCalls,
                 gradeOutcome, nextReq, submits, reevals>>

(* onAlternativeUpdate of card i: handleAlternativeChange, then the       *)
(* render and the summary effect when a new questions array was set       *)
EditAlternative(i, altIndex, value) ==
  /\ result # Null
  /\ edits < MaxEdits
  /\ edits' = edits + 1
  /\ data' = handleAlternativeChange(data, i, altIndex, value)
  /\ IF HasField(data.questions[i], "alternatives")
       THEN /\ timer' = EffectTimer(firstRender, timer, data')
            /\ firstRender' = FALSE
            /\ sinceEdit' = 0
            /\ callsSinceEdit' = 0
            /\ burst' = IF timer.armed THEN burst + 1 ELSE 1
            /\ qualifying' = FALSE
       ELSE UNCHANGED <<timer, firstRender, sinceEdit, callsSinceEdit,
                        burst, qualifying>>
  /\ reevalCalls' = Forget(reevalCalls, i)
  /\ lastOp' = [op |-> "editAlternative", idx |-> i]
  /\ UNCHANGED <<adjust, discarded, peers, ledger, profile, dashVars,
                 isUpdatingSummary, isReevaluating, epoch, summaryCalls,
                 commitCalls, gradeOutcome, nextReq, submits, reevals>>

(* time passes while a timeout is pending; a timeout that is due fires   *)
(* before more time passes                                                *)
Tick ==
  /\ timer.armed /\ timer.left > 0
  /\ timer' = [timer EXCEPT !.left = @ - TickMs]
  /\ sinceEdit' = sinceEdit + TickMs
  /\ lastOp' = [op |-> "tick"]
  /\ UNCHANGED <<adjust, discarded, peers, ledger, profile, dashVars, data,
                 isUpdatingSummary, firstRender, isReevaluating, epoch,
                 summaryCalls, reevalCalls, callsSinceEdit, burst,
                 qualifying, commitCalls, gradeOutcome, nextReq, submits,
                 edits, reevals>>

(* the timeout callback starts: setIsUpdatingSummary(true) and            *)
(* regenerateSummary(data) with the data the effect closed over           *)
SummaryTimeout ==
  /\ timer.armed /\ timer.left = 0
  /\ isUpdatingSummary' = TRUE
  /\ summaryCalls' = summaryCalls \cup
        {[id |-> nextReq, epoch |-> epoch, data |-> timer.data]}
  /\ nextReq' = nextReq + 1
  /\ timer' = NoTimer
  /\ callsSinceEdit' = callsSinceEdit + 1
  /\ lastOp' = [op |-> "summarize", id |-> nextReq]
  /\ UNCHANGED <<adjust, discarded, peers, ledger, profile, dashVars, data,
                 firstRender, isReevaluating, epoch, reevalCalls, sinceEdit,
                 burst, qualifying, commitCalls, gradeOutcome, submits,
                 edits, reevals>>

(* regenerateSummary returns to the timeout callback: a text, or "" when  *)
(* the oracle failed or answered nothing; a component that has been       *)
(* unmounted ignores the setState calls                                   *)
regenerateSummaryReturn(call, text) ==
  /\ call \in summaryCalls
  /\ summaryCalls' = summaryCalls \ {call}
  /\ IF Mounted(call)
       THEN /\ data' = ApplySummary(data, text)
            /\ isUpdatingSummary' = FALSE
            /\ lastOp' = [op |-> IF text # "" THEN "summaryApplied"
                                              ELSE "summaryFailed",
                          id |-> call.id, from |-> call.epoch]
       ELSE /\ UNCHANGED <<data, isUpdatingSummary>>
            /\ lastOp' = [op |-> "summaryDropped", id |-> call.id,
                          from |-> call.epoch]
  /\ UNCHANGED <<adjust, discarded, peers, ledger, profile, dashVars,
                 firstRender, timer, isReevaluating, epoch, reevalCalls,
                 obsVars, nextReq, submits, edits, reevals>>

(* click on the re-evaluation button of question card i: handleReevaluate *)
(* closes over the props of the current render (question, index and       *)
(* onBulkUpdate, itself closing over data)                                *)
handleReevaluate(i) ==
  /\ result # Null
  /\ i \in 1..Len(data.questions)
  /\ ~IsContext(data.questions[i])
  /\ ~ButtonDisabled(isReevaluating, i)
  /\ reevals < MaxReevals
  /\ reevals' = reevals + 1
  /\ isReevaluating' = [isReevaluating EXCEPT ![i] = TRUE]
  /\ reevalCalls' = reevalCalls \cup
        {[id |-> Cardinality({c \in reevalCalls : c.idx = i /\ c.epoch = epoch}),
          idx |-> i, epoch |-> epoch, data |-> data,
          question |-> ReevalArgument(data, i), done |-> {}]}
  /\ lastOp' = [op |-> "reevaluate", idx |-> i]
  /\ UNCHANGED <<adjust, discarded, peers, ledger, profile, dashVars, data,
                 isUpdatingSummary, firstRender, timer, epoch, summaryCalls,
                 obsVars, nextReq, submits, edits>>

(* reevaluateQuestion resolves with updates: onBulkUpdate(index, updates),*)
(* the render and the summary effect, then setIsReevaluating(false)       *)
reevaluateQuestionResolve(call, updates) ==
  /\ call \in reevalCalls
  /\ IF Mounted(call)
       THEN /\ data' = handleQuestionBulkUpdate(call.data, data, call.idx, updates)
            /\ timer' = EffectTimer(firstRender, timer, data')
            /\ firstRender' = FALSE
            /\ sinceEdit' = 0
            /\ callsSinceEdit' = 0
            /\ burst' = IF timer.armed THEN burst + 1 ELSE 1
            /\ UNCHANGED qualifying
            /\ isReevaluating' = ClearFlag(isReevaluating, call.idx)
            /\ reevalCalls' =
                 { [c EXCEPT !.done = {e \in @ : e[1] # call.idx}
                                        \cup {<<call.idx, updates>>}] :
                   c \in {d \in reevalCalls \ {call} : d.epoch = epoch} }
                 \cup {d \in reevalCalls \ {call} : d.epoch # epoch}
            /\ lastOp' = [op |-> "reevalApplied", idx |-> call.idx,
                          updates |-> updates, done |-> call.done,
                          from |-> call.epoch]
       ELSE /\ reevalCalls' = reevalCalls \ {call}
            /\ lastOp' = [op |-> "reevalDropped", idx |-> call.idx,
                          from |-> call.epoch]
            /\ UNCHANGED <<data, timer, firstRender, sinceEdit,
                           callsSinceEdit, burst, qualifying, isReevaluating>>
  /\ UNCHANGED <<adjust, discarded, peers, ledger, profile, dashVars,
                 isUpdatingSummary, epoch, summaryCalls, commitCalls,
                 gradeOutcome, nextReq, submits, edits, reevals>>

(* reevaluateQuestion throws: the catch block alerts, finally clears the  *)
(* flag                                                                   *)
reevaluateQuestionReject(call) ==
  /\ call \in reevalCalls
  /\ reevalCalls' = reevalCalls \ {call}
  /\ IF Mounted(call)
       THEN /\ isReevaluating' = ClearFlag(isReevaluating, call.idx)
            /\ lastOp' = [op |-> "reevalFailed", idx |-> call.idx,
                          from |-> call.epoch,
                          alert |-> "Erro ao reavaliar questao"]
       ELSE /\ UNCHANGED isReevaluating
            /\ lastOp' = [op |-> "reevalDropped", idx |-> call.idx,
                          from |-> call.epoch]
  /\ UNCHANGED <<adjust, discarded, peers, ledger, profile, dashVars, data,
                 isUpdatingSummary, firstRender, timer, epoch, summaryCalls,
                 obsVars, nextReq, submits, edits, reevals>>

MountResultsViewBroken(c) ==
  /\ result' = c
  /\ data' = c
  /\ isUpdatingSummary' = FALSE
  /\ timer' = EffectTimer(FALSE, NoTimer, c)
  /\ firstRender' = FALSE
  /\ isReevaluating' = [i \in 1..Len(c.questions) |-> FALSE]
  /\ epoch' = epoch + 1
  /\ sinceEdit' = -1
  /\ callsSinceEdit' = 0
  /\ burst' = 0
  /\ qualifying' = TRUE
(* setResult(correction): ResultsView mounts; its first effect run finds  *)
(* firstRender.current true and arms nothing                              *)
MountResultsView(c) ==
  /\ result' = c
  /\ data' = c
  /\ isUpdatingSummary' = FALSE
  /\ timer' = EffectTimer(TRUE, NoTimer, c)
  /\ firstRender' = FALSE
  /\ isReevaluating' = [i \in 1..Len(c.questions) |-> FALSE]
  /\ epoch' = epoch + 1
  /\ sinceEdit' = -1
  /\ callsSinceEdit' = 0
  /\ burst' = 0
  /\ qualifying' = TRUE

UnmountResultsViewBroken ==
  /\ result' = Null
  /\ data' = Null
  /\ isUpdatingSummary' = FALSE
  /\ firstRender' = TRUE
  /\ isReevaluating' = <<>>
  /\ sinceEdit' = -1
  /\ callsSinceEdit' = 0
  /\ burst' = 0
  /\ qualifying' = TRUE
  /\ UNCHANGED <<timer, epoch>>
(* result becomes null: ResultsView unmounts, the effect's cleanup clears *)
(* the pending timeout and the component state is gone                    *)
UnmountResultsView ==
  /\ result' = Null
  /\ data' = Null
  /\ isUpdatingSummary' = FALSE
  /\ timer' = NoTimer
  /\ firstRender' = TRUE
  /\ isReevaluating' = <<>>
  /\ sinceEdit' = -1
  /\ callsSinceEdit' = 0
  /\ burst' = 0
  /\ qualifying' = TRUE
  /\ UNCHANGED epoch

(* what handleAnalyze does with the value consumeCredit resolved to *)
ConsumeReturned(creditConsumed) ==
  IF ShowsResult(creditConsumed, user)
    THEN /\ pc' = "reloadUser"
         /\ UNCHANGED <<loading, error>>
    ELSE /\ pc' = "idle"
         /\ error' = "Erro ao debitar credito"
         /\ loading' = FALSE

handleAnalyzeBroken ==
  /\ file /\ ~loading /\ result = Null
  /\ submits < MaxSubmits
  /\ discarded' = FALSE
  /\ submits' = submits + 1
  /\ commitCalls' = IF Denied(user) THEN 0 ELSE 1
  /\ IF Denied(user)
       THEN /\ error' = "sem creditos"
            /\ gradeOutcome' = "none"
            /\ lastOp' = [op |-> "submitDenied"]
            /\ UNCHANGED <<loading, pc>>
       ELSE /\ loading' = TRUE
            /\ error' = NoError
            /\ pc' = "analyzeExam"
            /\ gradeOutcome' = "pending"
            /\ lastOp' = [op |-> "submitStarted"]
  /\ UNCHANGED <<adjust, peers, ledger, profile, user, file, result,
                 correction, readCredits, viewVars, summaryCalls,
                 reevalCalls, sinceEdit, callsSinceEdit, burst, qualifying,
                 nextReq, edits, reevals>>
(* click on the analyze button (enabled while file && !loading, shown     *)
(* while there is no result)                                              *)
handleAnalyze ==
  /\ file /\ ~loading /\ result = Null
  /\ submits < MaxSubmits
  /\ discarded' = FALSE
  /\ submits' = submits + 1
  /\ commitCalls' = 0
  /\ IF Denied(user)
       THEN /\ error' = "sem creditos"
            /\ gradeOutcome' = "none"
            /\ lastOp' = [op |-> "submitDenied"]
            /\ UNCHANGED <<loading, pc>>
       ELSE /\ loading' = TRUE
            /\ error' = NoError
            /\ pc' = "analyzeExam"
            /\ gradeOutcome' = "pending"
            /\ lastOp' = [op |-> "submitStarted"]
  /\ UNCHANGED <<adjust, peers, ledger, profile, user, file, result,
                 correction, readCredits, viewVars, summaryCalls,
                 reevalCalls, sinceEdit, callsSinceEdit, burst, qualifying,
                 nextReq, edits, reevals>>

(* analyzeExam resolves; handleAnalyze goes on to call consumeCredit,     *)
(* which answers at once for the offline bypass and otherwise selects the *)
(* profile                                                                *)
analyzeExamResolve(r) ==
  /\ pc = "analyzeExam"
  /\ correction' = r
  /\ gradeOutcome' = "ok"
  /\ commitCalls' = commitCalls + 1
  /\ lastOp' = [op |-> "graded"]
  /\ IF user.id = "offline-super-admin"
       THEN ConsumeReturned(TRUE)
       ELSE pc' = "select" /\ UNCHANGED <<loading, error>>
  /\ UNCHANGED <<adjust, discarded, peers, ledger, profile, user, file,
                 result, readCredits, viewVars, summaryCalls, reevalCalls,
                 sinceEdit, callsSinceEdit, burst, qualifying, nextReq,
                 submits, edits, reevals>>

analyzeExamRejectBroken ==
  /\ pc = "analyzeExam"
  /\ gradeOutcome' = "fail"
  /\ error' = "Ocorreu um erro ao corrigir a prova"
  /\ pc' = "idle"
  /\ lastOp' = [op |-> "gradeFailed"]
  /\ UNCHANGED <<adjust, discarded, loading, peers, ledger, profile, user,
                 file, result, correction, readCredits, viewVars,
                 summaryCalls, reevalCalls, sinceEdit, callsSinceEdit,
                 burst, qualifying, commitCalls, nextReq, submits, edits,
                 reevals>>
(* analyzeExam throws: the catch block reports, finally clears loading *)
analyzeExamReject ==
  /\ pc = "analyzeExam"
  /\ gradeOutcome' = "fail"
  /\ error' = "Ocorreu um erro ao corrigir a prova"
  /\ loading' = FALSE
  /\ pc' = "idle"
  /\ lastOp' = [op |-> "gradeFailed"]
  /\ UNCHANGED <<adjust, discarded, peers, ledger, profile, user, file,
                 result, correction, readCredits, viewVars, summaryCalls,
                 reevalCalls, sinceEdit, callsSinceEdit, burst, qualifying,
                 commitCalls, nextReq, submits, edits, reevals>>

(* consumeCredit: the select of the profile returns (found = FALSE when   *)
(* the store answers with no row)                                         *)
consumeCreditSelect(found) ==
  /\ pc = "select"
  /\ lastOp' = [op |-> "select"]
  /\ IF ~found THEN ConsumeReturned(FALSE) /\ UNCHANGED readCredits
     ELSE IF profile.role = "admin"
            THEN ConsumeReturned(TRUE) /\ UNCHANGED readCredits
     ELSE IF profile.credits > 0
            THEN /\ pc' = "update"
                 /\ readCredits' = profile.credits
                 /\ UNCHANGED <<loading, error>>
     ELSE ConsumeReturned(FALSE) /\ UNCHANGED readCredits
  /\ UNCHANGED <<adjust, discarded, peers, ledger, profile, user, file,
                 result, correction, viewVars, summaryCalls, reevalCalls,
                 obsVars, nextReq, submits, edits, reevals>>

(* consumeCredit: the update of credits to (credits read) - 1 returns;    *)
(* its outcome is not inspected and consumeCredit resolves to true        *)
consumeCreditUpdate(written) ==
  /\ pc = "update"
  /\ profile' = IF written THEN [profile EXCEPT !.credits = readCredits - 1]
                           ELSE profile
  /\ ledger' = [committed |-> ledger.committed + 1,
                unwritten |-> ledger.unwritten \/ ~written]
  /\ lastOp' = [op |-> "update"]
  /\ ConsumeReturned(TRUE)
  /\ UNCHANGED <<adjust, discarded, peers, user, file, result, correction,
                 readCredits, viewVars, summaryCalls, reevalCalls, obsVars,
                 nextReq, submits, edits, reevals>>

(* consumeCredit called by another session s of the same principal (a    *)
(* second tab whose grading call has returned): the select of the profile *)
peerConsumeCreditSelect(s, found) ==
  /\ peers[s].pc = "select"
  /\ peers' = [peers EXCEPT ![s] =
                 IF ~found THEN [pc |-> "done", ok |-> FALSE]
                 ELSE IF profile.role = "admin" THEN [pc |-> "done", ok |-> TRUE]
                 ELSE IF profile.credits > 0
                   THEN [pc |-> "update", read |-> profile.credits]
                 ELSE [pc |-> "done", ok |-> FALSE]]
  /\ lastOp' = [op |-> "peerSelect", s |-> s]
  /\ UNCHANGED <<adjust, discarded, profile, ledger, dashVars, viewVars,
                 summaryCalls, reevalCalls, obsVars, nextReq, submits,
                 edits, reevals>>

(* consumeCredit of session s: its update of credits to (credits it read) *)
(* - 1 returns and the call resolves to true                              *)
peerConsumeCreditUpdate(s, written) ==
  /\ peers[s].pc = "update"
  /\ profile' = IF written THEN [profile EXCEPT !.credits = peers[s].read - 1]
                           ELSE profile
  /\ peers' = [peers EXCEPT ![s] = [pc |-> "done", ok |-> TRUE]]
  /\ ledger' = [committed |-> ledger.committed + 1,
                unwritten |-> ledger.unwritten \/ ~written]
  /\ lastOp' = [op |-> "peerUpdate", s |-> s]
  /\ UNCHANGED <<adjust, discarded, dashVars, viewVars, summaryCalls,
                 reevalCalls, obsVars, nextReq, submits, edits, reevals>>

NewCreditsBroken(current, amount) == current + amount
(* Math.max(0, (current?.credits || 0) + amount) *)
NewCredits(current, amount) ==
  IF current + amount > 0 THEN current + amount ELSE 0

(* no updateUserCredits call is running; count calls have been made *)
NoAdjust(count) ==
  [pc |-> "idle", read |-> 0, amount |-> 0, newCredits |-> 0, count |-> count]

(* updateUserCredits(userId, amount) of the admin panel: the select of    *)
(* the credits returns (found = FALSE when the store answers with no row) *)
updateUserCreditsSelect(amount, found) ==
  /\ adjust.pc = "idle"
  /\ adjust.count < MaxAdjusts
  /\ LET current == IF found THEN profile.credits ELSE 0
     IN adjust' = [pc |-> "update", read |-> current, amount |-> amount,
                   newCredits |-> NewCredits(current, amount),
                   count |-> adjust.count + 1]
  /\ lastOp' = [op |-> "adjustSelect", amount |-> amount]
  /\ UNCHANGED <<profile, peers, ledger, discarded, dashVars, viewVars,
                 summaryCalls, reevalCalls, obsVars, nextReq, submits,
                 edits, reevals>>

(* updateUserCredits: the update of credits to newCredits returns *)
updateUserCreditsUpdate(written) ==
  /\ adjust.pc = "update"
  /\ profile' = IF written THEN [profile EXCEPT !.credits = adjust.newCredits]
                           ELSE profile
  /\ adjust' = [adjust EXCEPT !.pc = "idle"]
  /\ lastOp' = [op |-> "adjustUpdate", written |-> written]
  /\ UNCHANGED <<peers, ledger, discarded, dashVars, viewVars, summaryCalls,
                 reevalCalls, obsVars, nextReq, submits, edits, reevals>>

(* reloadUser returns, onUserUpdate and setResult(correction) run and     *)
(* finally clears loading                                                 *)
reloadUserReturn(reachable) ==
  /\ pc = "reloadUser"
  /\ user' = getCurrentUser(profile, reachable)
  /\ MountResultsView(correction)
  /\ loading' = FALSE
  /\ pc' = "idle"
  /\ lastOp' = [op |-> "installed"]
  /\ UNCHANGED <<adjust, discarded, peers, ledger, profile, file, error,
                 correction, readCredits, summaryCalls, reevalCalls,
                 commitCalls, gradeOutcome, nextReq, submits, edits,
                 reevals>>

handleReset ==
  /\ result # Null \/ file
  /\ file' = FALSE
  /\ error' = NoError
  /\ UnmountResultsView
  /\ discarded' = (discarded \/ pc = "analyzeExam")
  /\ lastOp' = [op |-> "reset", pending |-> timer.armed]
  /\ UNCHANGED <<adjust, peers, ledger, profile, user, loading, pc,
                 correction, readCredits, summaryCalls, reevalCalls,
                 commitCalls, gradeOutcome, nextReq, submits, edits,
                 reevals>>

(* the file input is part of the upload view, shown while result is null *)
handleFileChange ==
  /\ result = Null
  /\ file' = TRUE
  /\ error' = NoError
  /\ discarded' = (discarded \/ pc = "analyzeExam")
  /\ lastOp' = [op |-> "file"]
  /\ UNCHANGED <<adjust, peers, ledger, profile, user, loading, result, pc,
                 correction, readCredits, viewVars, summaryCalls,
                 reevalCalls, obsVars, nextReq, submits, edits, reevals>>

(* ---------------------------- specification --------------------------- *)
Init ==
  /\ adjust = NoAdjust(0)
  /\ discarded = FALSE
  /\ peers = [s \in 1..MaxPeers |-> [pc |-> "select"]]
  /\ ledger = [committed |-> 0, unwritten |-> FALSE]
  /\ profile \in [role : {"user", "admin"}, credits : 0..MaxCredits]
  /\ user = mapProfileToUser(profile)
  /\ file = FALSE
  /\ loading = FALSE
  /\ result = Null
  /\ error = NoError
  /\ pc = "idle"
  /\ correction = Null
  /\ readCredits = 0
  /\ data = Null
  /\ isUpdatingSummary = FALSE
  /\ firstRender = TRUE
  /\ timer = NoTimer
  /\ isReevaluating = <<>>
  /\ epoch = 0
  /\ summaryCalls = {}
  /\ reevalCalls = {}
  /\ lastOp = [op |-> "init"]
  /\ sinceEdit = -1
  /\ callsSinceEdit = 0
  /\ burst = 0
  /\ qualifying = TRUE
  /\ commitCalls = 0
  /\ gradeOutcome = "none"
  /\ nextReq = 1
  /\ submits = 0
  /\ edits = 0
  /\ reevals = 0

(* the states right after the first successful submit of a standard      *)
(* principal who held one credit: the result r of the oracle is installed *)
(* and ResultsView has mounted                                            *)
InitView ==
  /\ adjust = NoAdjust(0)
  /\ discarded = FALSE
  /\ peers = [s \in 1..MaxPeers |-> [pc |-> "select"]]
  /\ ledger = [committed |-> 1, unwritten |-> FALSE]
  /\ profile = [role |-> "user", credits |-> 0]
  /\ user = mapProfileToUser(profile)
  /\ file = TRUE
  /\ loading = FALSE
  /\ error = NoError
  /\ pc = "idle"
  /\ correction \in GradeResults
  /\ result = correction
  /\ readCredits = 1
  /\ data = correction
  /\ isUpdatingSummary = FALSE
  /\ firstRender = FALSE
  /\ timer = NoTimer
  /\ isReevaluating = [i \in 1..Len(correction.questions) |-> FALSE]
  /\ epoch = 1
  /\ summaryCalls = {}
  /\ reevalCalls = {}
  /\ lastOp = [op |-> "installed"]
  /\ sinceEdit = -1
  /\ callsSinceEdit = 0
  /\ burst = 0
  /\ qualifying = TRUE
  /\ commitCalls = 1
  /\ gradeOutcome = "ok"
  /\ nextReq = 1
  /\ submits = 1
  /\ edits = 0
  /\ reevals = 0

Submit ==
  \/ handleAnalyze
  \/ \E r \in GradeResults : analyzeExamResolve(r)
  \/ analyzeExamReject
  \/ \E found \in BOOLEAN : consumeCreditSelect(found)
  \/ \E written \in BOOLEAN : consumeCreditUpdate(written)
  \/ \E reachable \in BOOLEAN : reloadUserReturn(reachable)
  \/ handleFileChange

Edit ==
  \/ \E e \in HeaderEdits : EditHeader(e[1], e[2])
  \/ \E i \in 1..Len(isReevaluating) :
        \E e \in CardEdits(data.questions[i]) : EditQuestion(i, e[1], e[2])

Summary ==
  \/ Tick
  \/ SummaryTimeout
  \/ \E call \in summaryCalls :
        \E text \in {SummaryText(call.id), ""} : regenerateSummaryReturn(call, text)

Reevaluate ==
  \/ \E i \in 1..Len(isReevaluating) : handleReevaluate(i)
  \/ \E call \in reevalCalls :
        \E updates \in ReevalResults : reevaluateQuestionResolve(call, updates)
  \/ \E call \in reevalCalls : reevaluateQuestionReject(call)

Peers ==
  \/ \E s \in 1..MaxPeers : \E found \in BOOLEAN : peerConsumeCreditSelect(s, found)
  \/ \E s \in 1..MaxPeers : \E written \in BOOLEAN : peerConsumeCreditUpdate(s, written)

(* the submit path of the Dashboard, from login *)
NextGate == Submit \/ handleReset
SpecGate == Init /\ [][NextGate]_vars

(* an installed result under edits and the debounced summary refresh *)
NextSummary == Edit \/ Summary \/ handleReset
SpecSummary == InitView /\ [][NextSummary]_vars

(* an installed result under edits and re-evaluations *)
NextReeval == Edit \/ Reevaluate
SpecReeval == InitView /\ [][NextReeval]_vars

(* the submit path while other sessions of the same standard principal   *)
(* commit against the same row of the store                               *)
InitStore == Init /\ profile = [role |-> "user", credits |-> MaxCredits]
NextStore == Submit \/ Peers
SpecStore == InitStore /\ [][NextStore]_vars

(* the submit path of a privileged principal, whose consumeCredit        *)
(* returns after the select                                               *)
InitPrivileged == Init /\ profile = [role |-> "admin", credits |-> 0]
SubmitPrivileged ==
  \/ handleAnalyze
  \/ \E r \in GradeResults : analyzeExamResolve(r)
  \/ analyzeExamReject
  \/ \E found \in BOOLEAN : consumeCreditSelect(found)
  \/ \E reachable \in BOOLEAN : reloadUserReturn(reachable)
  \/ handleFileChange

(* a privileged principal's sessions one after the other: submit,         *)
(* re-evaluations and the summary refresh their patches arm, reset, and   *)
(* the next submit while calls of the discarded session are in flight     *)
NextSession == SubmitPrivileged \/ handleReset \/ Reevaluate \/ Summary
SpecSession == InitPrivileged /\ [][NextSession]_vars

(* a privileged principal's first session from login: the submit that     *)
(* installs the result, then edits and the debounced summary refresh      *)
NextIngest == SubmitPrivileged \/ Edit \/ Summary
SpecIngest == InitPrivileged /\ [][NextIngest]_vars

(* the edit handlers of an installed result called with every index up   *)
(* to the length of the items and every field                             *)
HandlerCalls ==
  \/ \E e \in HeaderEdits : EditHeader(e[1], e[2])
  \/ \E i \in 1..(Len(data.questions) + 1) :
        \E e \in HandlerEdits : EditQuestion(i, e[1], e[2])
  \/ \E i \in 1..Len(data.questions) :
        \E altIndex \in 1..2 : EditAlternative(i, altIndex, "edited")
NextHandlers == HandlerCalls
SpecHandlers == InitView /\ [][NextHandlers]_vars

(* the credit buttons of the admin panel: -1 and +1 *)
Adjust ==
  \/ \E amount \in {-1, 1} : \E found \in BOOLEAN :
        updateUserCreditsSelect(amount, found)
  \/ \E written \in BOOLEAN : updateUserCreditsUpdate(written)

(* commits of the principal's sessions interleaved with the admin's       *)
(* adjustments of the same row                                            *)
NextAdjust == Submit \/ Peers \/ Adjust
SpecAdjust == InitStore /\ [][NextAdjust]_vars

(* ------------------------------- claims ------------------------------- *)
RECURSIVE FieldSum(_, _)
(* the sum of field f over the Question items of qs, a missing f being 0 *)
FieldSum(qs, f) ==
  IF Len(qs) = 0 THEN 0
  ELSE LET q == qs[Len(qs)]
       IN FieldSum(SubSeq(qs, 1, Len(qs) - 1), f)
          + (IF q.type = "question" /\ f \in DOMAIN q THEN q[f] ELSE 0)

(* round(x * 100) / 100 of a number of thousandths *)
RoundToCents(x) == 10 * ((x + 5) \div 10)

(* C1: immediately after an edit of score or maxScore on a Question item, *)
(* totalScore is round2 of the sum of score and maxTotalScore is round2   *)
(* of the sum of maxScore over the Question items.                        *)
C1_TotalsAfterEdit ==
  (/\ lastOp.op = "editQuestion"
   /\ lastOp.field \in {"score", "maxScore"}
   /\ data.questions[lastOp.idx].type = "question")
  => /\ data.totalScore = RoundToCents(FieldSum(data.questions, "score"))
     /\ data.maxTotalScore = RoundToCents(FieldSum(data.questions, "maxScore"))

(* C2: consumeCredit has been invoked exactly once in a submit whose      *)
(* grading call returned a result, and not at all while the grading call  *)
(* is pending, after it failed, or after the submit was denied.           *)
C2_CommitOncePerSuccess ==
  commitCalls = IF gradeOutcome = "ok" THEN 1 ELSE 0

C2_Witness ==
  /\ lastOp.op = "installed" /\ commitCalls = 1
  /\ user.role = "user" /\ profile.credits = 0 /\ submits = 1

(* C3: once handleAnalyze has finished a submit whose grading call        *)
(* returned a result, the result is installed, whatever consumeCredit     *)
(* answered.                                                              *)
C3_ResultSurfaced ==
  (/\ pc = "idle" /\ gradeOutcome = "ok"
   /\ lastOp.op \in {"graded", "select", "update", "installed"})
  => result # Null

(* C4: a submit goes on to the grading oracle iff the principal is        *)
(* privileged or has remaining quota; a denied submit calls no oracle,    *)
(* commits nothing and creates no result.                                 *)
C4_AuthorizedIff ==
  /\ lastOp.op = "submitStarted"
       => /\ user.role = "admin" \/ user.credits > 0
          /\ pc = "analyzeExam" /\ gradeOutcome = "pending"
  /\ lastOp.op = "submitDenied"
       => /\ ~(user.role = "admin" \/ user.credits > 0)
          /\ pc = "idle" /\ ~loading
          /\ gradeOutcome = "none" /\ commitCalls = 0
          /\ result = Null

C4_Witness ==
  /\ lastOp.op = "submitDenied"
  /\ submits = 2 /\ readCredits = 1 /\ profile.credits = 0
  /\ user.role = "user"

(* C5: no summarize call is issued before DebounceMs have passed since    *)
(* the last edit of a burst, and the burst gets exactly one call: none    *)
(* while its timeout is pending, one once the timeout is gone.            *)
C5_Debounce ==
  (result # Null /\ sinceEdit >= 0)
  => /\ callsSinceEdit > 0 => sinceEdit >= DebounceMs
     /\ lastOp.op = "summarize" => sinceEdit >= DebounceMs
     /\ callsSinceEdit = IF timer.armed THEN 0 ELSE 1

C5_Witness ==
  lastOp.op = "summarize" /\ burst >= 2 /\ callsSinceEdit = 1 /\ qualifying

(* C6: a summarize response is written into summary only if it answers    *)
(* the most recently fired request and no newer debounce cycle has        *)
(* started (in sessions whose edits all changed a score or isCorrect).    *)
C6_OnlyLatestApplied ==
  (qualifying /\ lastOp.op = "summaryApplied")
  => lastOp.id = nextReq - 1 /\ ~timer.armed

(* C7: at most one summarize call of the session is in flight (in         *)
(* sessions whose edits all changed a score or isCorrect).                *)
C7_AtMostOneSummaryInFlight ==
  qualifying => Cardinality({c \in summaryCalls : c.epoch = epoch}) <= 1

(* C8: while a re-evaluation of item i is in flight no further one can be *)
(* started for i, and exactly one is in flight; when none is in flight a  *)
(* re-evaluation of question i is accepted.                               *)
C8_OneReevaluationPerItem ==
  \A i \in 1..Len(isReevaluating) :
    LET inFlight == {c \in reevalCalls : c.idx = i /\ c.epoch = epoch}
    IN /\ Cardinality(inFlight) <= 1
       /\ inFlight # {} => ~ENABLED handleReevaluate(i)
       /\ (inFlight = {} /\ data.questions[i].type = "question"
            /\ reevals < MaxReevals) => ENABLED handleReevaluate(i)

C8_Witness ==
  \E i \in 1..Len(isReevaluating) :
    /\ lastOp = [op |-> "reevaluate", idx |-> i]
    /\ data.questions[i].feedback = "reevaluated"
    /\ reevals = 2

(* C9: applying the answer of a re-evaluation of item i changes only      *)
(* isCorrect, score and feedback of item i; every other item, every other *)
(* field of item i and every header field keep the value they had just    *)
(* before.                                                                *)
C9_PatchesOnlyItem ==
  [][lastOp'.op = "reevalApplied"
     => LET i == lastOp'.idx
        IN /\ \A j \in 1..Len(data.questions) :
                j # i => data'.questions[j] = data.questions[j]
           /\ \A f \in DOMAIN data.questions[i] \ {"isCorrect", "score", "feedback"} :
                data'.questions[i][f] = data.questions[i][f]
           /\ \A h \in {"studentName", "schoolName", "summary", "fullTranscription"} :
                data'[h] = data[h]]_vars

Verdict(q) == [isCorrect |-> q.isCorrect, score |-> q.score, feedback |-> q.feedback]

(* C10: when the answer of a re-evaluation is applied, every other item    *)
(* whose re-evaluation succeeded while this one was in flight still shows *)
(* its new verdict.                                                       *)
C10_BothVerdictsKept ==
  lastOp.op = "reevalApplied"
  => /\ Verdict(data.questions[lastOp.idx]) = lastOp.updates
     /\ \A e \in lastOp.done :
          e[1] # lastOp.idx => Verdict(data.questions[e[1]]) = e[2]

(* C11: when the answer of a re-evaluation of item i is applied,          *)
(* totalScore becomes round2 of the sum of score over the Question items  *)
(* as they stand at that moment, item i carrying the new score.           *)
C11_TotalAfterPatch ==
  [][lastOp'.op = "reevalApplied"
     => LET patched == [data.questions EXCEPT
                          ![lastOp'.idx] = SpreadAll(@, lastOp'.updates)]
        IN data'.totalScore = RoundToCents(FieldSum(patched, "score"))]_vars

(* C12: right after a successful submit has installed its result,         *)
(* totalScore and maxTotalScore are round2 of the sums of score and       *)
(* maxScore over the ingested Question items, whatever totals the oracle  *)
(* answered.                                                              *)
C12_TotalsAfterSubmit ==
  lastOp.op = "installed"
  => /\ data.totalScore = RoundToCents(FieldSum(data.questions, "score"))
     /\ data.maxTotalScore = RoundToCents(FieldSum(data.questions, "maxScore"))

(* C13: when sessions of one standard principal commit concurrently and   *)
(* every update reaches the store, the stored credits have gone down by   *)
(* exactly the number of commits that reported success.                   *)
C13_DistinctDecrements ==
  ~ledger.unwritten => profile.credits = MaxCredits - ledger.committed

(* C14: a consumeCredit that resolves to true has lowered the stored      *)
(* credits of a standard principal by exactly 1 and has left the stored   *)
(* row of a privileged principal as it was.                               *)
C14_CommitLowersByOne ==
  [][/\ lastOp'.op = "update" => profile'.credits = profile.credits - 1
     /\ (lastOp'.op \in {"graded", "select"} /\ pc' = "reloadUser")
          => profile' = profile]_vars

(* C15: once the session has been reset no debounce timeout is pending    *)
(* and none fires: the reset session issues no summarize call.            *)
C15_ResetCancelsTimer ==
  result = Null => ~timer.armed /\ lastOp.op \notin {"tick", "summarize"}

C15_Witness ==
  lastOp = [op |-> "reset", pending |-> TRUE] /\ result = Null /\ burst = 0

(* C16: a summarize or re-evaluation answer that returns after its        *)
(* session was reset changes nothing: neither while no result is shown    *)
(* nor in the result installed by a later submit.                         *)
C16_LateResponseDropped ==
  [][(/\ lastOp'.op \in {"summaryApplied", "summaryFailed", "summaryDropped",
                         "reevalApplied", "reevalFailed", "reevalDropped"}
      /\ (result = Null \/ lastOp'.from # epoch))
     => /\ data' = data /\ result' = result
        /\ isUpdatingSummary' = isUpdatingSummary
        /\ isReevaluating' = isReevaluating
        /\ timer' = timer]_vars

C16_Witness ==
  /\ lastOp.op \in {"summaryDropped", "reevalDropped"}
  /\ result # Null /\ lastOp.from < epoch

(* C17: from the installation of the result until the first edit no       *)
(* timeout is armed and no summarize call of the session exists; a        *)
(* summarize call is issued only after an edit.                           *)
C17_NoSummaryOnMount ==
  /\ (result # Null /\ sinceEdit = -1)
       => /\ ~timer.armed /\ ~isUpdatingSummary
          /\ \A c \in summaryCalls : c.epoch # epoch
  /\ lastOp.op = "summarize" => sinceEdit >= 0

C17_Witness ==
  lastOp.op = "installed" /\ result # Null /\ sinceEdit = -1 /\ data = correction

(* C18: when a summarize call of the session fails, the result (summary   *)
(* included) stays as it was, isUpdatingSummary goes back to false and no *)
(* error is shown.                                                        *)
C18_SummaryFailureSilent ==
  [][lastOp'.op = "summaryFailed"
     => /\ data' = data
        /\ isUpdatingSummary' = FALSE
        /\ error' = NoError]_vars

C18_Witness ==
  lastOp.op = "summaryFailed" /\ data.summary = "edited" /\ ~isUpdatingSummary

(* C19: when the re-evaluation of item i fails, the flag of item i is     *)
(* cleared, the failure is reported by an alert and the result is left    *)
(* exactly as it was.                                                     *)
C19_ReevalFailureKeepsModel ==
  [][lastOp'.op = "reevalFailed"
     => /\ isReevaluating[lastOp'.idx] /\ ~isReevaluating'[lastOp'.idx]
        /\ lastOp'.alert # NoError
        /\ data' = data]_vars

C19_Witness ==
  /\ lastOp.op = "reevalFailed" /\ ~isReevaluating[lastOp.idx]
  /\ edits >= 1 /\ data # result

(* C20: when analyzeExam fails, no result is installed, consumeCredit has *)
(* not been called and the stored profile is as before, an error message  *)
(* is set, and the next click on the submit button, with a file chosen,   *)
(* is accepted.                                                           *)
C20_FailedSubmit ==
  /\ [](lastOp.op = "gradeFailed"
         => /\ result = Null /\ data = Null
            /\ commitCalls = 0
            /\ error # NoError
            /\ ~loading /\ ~Denied(user)
            /\ (file /\ submits < MaxSubmits) => ENABLED handleAnalyze)
  /\ [][lastOp'.op = "gradeFailed" => profile' = profile /\ user' = user]_vars

C20_Witness ==
  lastOp.op = "gradeFailed" /\ submits = 2 /\ user.role = "user" /\ profile.credits = 1

C22_OtherEditsKeepTotals ==
  [][(\/ lastOp'.op \in {"editHeader", "editAlternative"}
      \/ /\ lastOp'.op = "editQuestion"
         /\ lastOp'.field \notin {"score", "maxScore"}
         /\ lastOp'.idx \in 1..Len(data.questions))
     => /\ data'.totalScore = data.totalScore
        /\ data'.maxTotalScore = data.maxTotalScore]_vars

C22_Witness ==
  /\ lastOp.op = "editAlternative"
  /\ HasField(data.questions[lastOp.idx], "alternatives")
  /\ data.questions[lastOp.idx].alternatives # result.questions[lastOp.idx].alternatives
  /\ data.summary = "edited"
  /\ data.totalScore = result.totalScore

C23_ReevaluatesCurrentItem ==
  [][lastOp'.op = "reevaluate"
     => \E c \in reevalCalls' \ reevalCalls :
          c.idx = lastOp'.idx /\ c.question = data.questions[lastOp'.idx]]_vars

C23_Witness ==
  /\ lastOp.op = "reevaluate"
  /\ data.questions[lastOp.idx] # result.questions[lastOp.idx]
  /\ \E c \in reevalCalls : c.idx = lastOp.idx /\ c.question = data.questions[lastOp.idx]

(* C24: the result handed to regenerateSummary is the result as it stands *)
(* when the timeout fires, header edits made since the timeout was armed  *)
(* included (in sessions whose item edits all changed a score or         *)
(* isCorrect).                                                            *)
C24_SnapshotAtFire ==
  [][(qualifying /\ lastOp'.op = "summarize")
     => \E c \in summaryCalls' \ summaryCalls :
          c.id = lastOp'.id /\ c.data = data]_vars

(* C26: once the oracle has answered a summarize call of the session,     *)
(* with a text or with a failure, the session is idle: isUpdatingSummary  *)
(* is false and no summarize call of the session is in flight (in        *)
(* sessions whose item edits all changed a score or isCorrect).           *)
C26_IdleAfterResponse ==
  (qualifying /\ lastOp.op \in {"summaryApplied", "summaryFailed"})
  => /\ ~isUpdatingSummary
     /\ \A c \in summaryCalls : c.epoch # epoch

(* C27: while a result is shown, isUpdatingSummary is true exactly when a *)
(* summarize call of the session is in flight.                            *)
C27_FlagExact ==
  result # Null
  => (isUpdatingSummary <=> \E c \in summaryCalls : c.epoch = epoch)

(* C25: applying the answer of a re-evaluation arms the summary timeout   *)
(* anew with the full DebounceMs, over the patched result, and the        *)
(* summarize call that follows is issued DebounceMs after the patch.      *)
C25_PatchArmsDebounce ==
  /\ lastOp.op = "reevalApplied"
       => /\ timer = [armed |-> TRUE, left |-> DebounceMs, data |-> data]
          /\ sinceEdit = 0
          /\ ENABLED Tick
  /\ (lastOp.op = "summarize" /\ result # Null) => sinceEdit = DebounceMs

C25_Witness ==
  /\ lastOp.op = "summarize" /\ result # Null
  /\ sinceEdit = DebounceMs /\ burst >= 2
  /\ \E i \in 1..Len(data.questions) :
       HasField(data.questions[i], "feedback") /\ data.questions[i].feedback = "reevaluated"

(* C28: no result is installed by a submit during whose grading call the  *)
(* session was reset or a new file was selected.                          *)
C28_ResetDiscardsGrading ==
  lastOp.op = "installed" => ~discarded

(* C30: under every interleaving of consumeCredit calls and               *)
(* updateUserCredits calls on the principal's row, the stored credits are *)
(* never negative.                                                        *)
C30_CreditsNeverNegative ==
  profile.credits >= 0

C30_Witness ==
  /\ lastOp = [op |-> "adjustUpdate", written |-> TRUE]
  /\ adjust.read + adjust.amount < 0
  /\ profile.credits = 0
  /\ ledger.committed >= 1

=============================================================================
